---- MODULE Spec2Model ----
(***************************************************************************)
(* Model of the CSV user pipeline of parse-csv-4-fun: the record validator *)
(* (#processUsersLine / #processUser), the header resolver, and the four   *)
(* entry points (static processUsers, and the instance processUsers,       *)
(* processUsersAsStream, processUsersAsStreamAndConcurrency).              *)
(*                                                                         *)
(* Text is modelled as a sequence of one-character strings, so that split, *)
(* trim, indexOf, parseInt, toUpperCase and join are computed, not assumed.*)
(***************************************************************************)
EXTENDS Integers, Sequences, FiniteSets, TLC

(***************************************************************************)
(* Bounds of the model.                                                    *)
(***************************************************************************)
MaxFieldLen == 2      \* longest field drawn for the validator specification
MaxLines == 4         \* longest input file (in lines) of the pipeline runs

(***************************************************************************)
(* JavaScript string and array primitives used by the parser.              *)
(***************************************************************************)
Digits == <<"0", "1", "2", "3", "4", "5", "6", "7", "8", "9">>

LowerCase == <<"a", "b", "c", "d", "e", "f", "g", "h", "i", "j", "k", "l", "m",
               "n", "o", "p", "q", "r", "s", "t", "u", "v", "w", "x", "y", "z">>

UpperCase == <<"A", "B", "C", "D", "E", "F", "G", "H", "I", "J", "K", "L", "M",
               "N", "O", "P", "Q", "R", "S", "T", "U", "V", "W", "X", "Y", "Z">>

\* values[i] of an index that is out of range
Undefined == <<"undefined">>

\* the number NaN, and a number n, as parseInt returns them
NaN == [nan |-> TRUE, val |-> 0]

Num(n) == [nan |-> FALSE, val |-> n]

\* the line separator of the platform (os.EOL)
EOL == "\n"

IsWhiteSpace(c) == c \in {" ", EOL}

IsDigit(c) == \E d \in 1..10 : Digits[d] = c

DigitVal(c) == (CHOOSE d \in 1..10 : Digits[d] = c) - 1

RECURSIVE TrimStart(_)
TrimStart(s) ==
  IF s = <<>> THEN <<>>
  ELSE IF IsWhiteSpace(Head(s)) THEN TrimStart(Tail(s)) ELSE s

RECURSIVE TrimEnd(_)
TrimEnd(s) ==
  IF s = <<>> THEN <<>>
  ELSE IF IsWhiteSpace(s[Len(s)]) THEN TrimEnd(SubSeq(s, 1, Len(s) - 1)) ELSE s

\* String.prototype.trim
Trim(s) == TrimEnd(TrimStart(s))

\* String.prototype.split(sep) for a one-character separator: the fields
\* between the separators; a string without separator is one field.
RECURSIVE SplitFrom(_, _, _)
SplitFrom(s, sep, cur) ==
  IF s = <<>> THEN <<cur>>
  ELSE IF Head(s) = sep THEN <<cur>> \o SplitFrom(Tail(s), sep, <<>>)
  ELSE SplitFrom(Tail(s), sep, Append(cur, Head(s)))

Split(s, sep) == SplitFrom(s, sep, <<>>)

\* Array.prototype.join(sep)
RECURSIVE Join(_, _)
Join(fields, sep) ==
  IF fields = <<>> THEN <<>>
  ELSE IF Len(fields) = 1 THEN fields[1]
  ELSE fields[1] \o <<sep>> \o Join(Tail(fields), sep)

\* Array.prototype.indexOf: zero-based position of the first match, or -1
IndexOf(arr, x) ==
  IF \E i \in 1..Len(arr) : arr[i] = x
  THEN (CHOOSE i \in 1..Len(arr) : arr[i] = x /\ \A j \in 1..(i - 1) : arr[j] # x) - 1
  ELSE -1

\* values[i] for a zero-based index
At(arr, i) == IF i >= 0 /\ i < Len(arr) THEN arr[i + 1] ELSE Undefined

\* !v for a string or undefined
Falsy(v) == v = Undefined \/ v = <<>>

\* String.prototype.includes for a one-character needle
Includes(s, c) == \E i \in 1..Len(s) : s[i] = c

UpperChar(c) ==
  IF \E i \in 1..26 : LowerCase[i] = c
  THEN UpperCase[CHOOSE i \in 1..26 : LowerCase[i] = c]
  ELSE c

\* String.prototype.toUpperCase
ToUpperCase(s) == [i \in 1..Len(s) |-> UpperChar(s[i])]

\* value of the longest prefix of digits of s, continuing from acc
RECURSIVE DigitPrefix(_, _)
DigitPrefix(s, acc) ==
  IF s = <<>> \/ ~IsDigit(Head(s)) THEN acc
  ELSE DigitPrefix(Tail(s), 10 * acc + DigitVal(Head(s)))

\* a parse of the whole string (Number(s) of a non-empty string): NaN unless
\* every character after the optional sign is a digit
ParseInt_WholeString(str) ==
  LET s == TrimStart(str)
      signed == s # <<>> /\ Head(s) \in {"-", "+"}
      body == IF signed THEN Tail(s) ELSE s
  IN IF body = <<>> \/ \E i \in 1..Len(body) : ~IsDigit(body[i]) THEN NaN
     ELSE IF signed /\ Head(s) = "-" THEN Num(0 - DigitPrefix(body, 0))
     ELSE Num(DigitPrefix(body, 0))

\* parseInt(s, 10): leading white space, an optional sign, then the longest
\* prefix of digits; NaN when there is no digit.
ParseInt(str) ==
  LET s == TrimStart(str)
      signed == s # <<>> /\ Head(s) \in {"-", "+"}
      body == IF signed THEN Tail(s) ELSE s
  IN IF body = <<>> \/ ~IsDigit(Head(body)) THEN NaN
     ELSE IF signed /\ Head(s) = "-" THEN Num(0 - DigitPrefix(body, 0))
     ELSE Num(DigitPrefix(body, 0))

\* decimal digits of a natural number
RECURSIVE NatToString(_)
NatToString(n) ==
  IF n < 10 THEN <<Digits[n + 1]>>
  ELSE NatToString(n \div 10) \o <<Digits[(n % 10) + 1]>>

\* String(number), as Array.prototype.join renders a number
NumberToString(x) ==
  IF x.nan THEN <<"N", "a", "N">>
  ELSE IF x.val < 0 THEN <<"-">> \o NatToString(0 - x.val)
  ELSE NatToString(x.val)

(***************************************************************************)
(* Record validator / transformer.                                         *)
(***************************************************************************)
USER_HEADERS == << <<"n", "a", "m", "e">>, <<"e", "m", "a", "i", "l">>, <<"a", "g", "e">> >>

\* null
Null == <<"null">>

\* #processUser without its test of a negative age
processUser_NoNegativeTest(name, email, age) ==
  IF ~Includes(email, "@") THEN Null
  ELSE IF age.nan THEN Null
  ELSE Join(<<ToUpperCase(name), email, NumberToString(age)>>, ",")

\* #processUser: the output line of a user, or null
processUser(name, email, age) ==
  IF ~Includes(email, "@") THEN Null
  ELSE IF age.nan \/ age.val < 0 THEN Null
  ELSE Join(<<ToUpperCase(name), email, NumberToString(age)>>, ",")

\* the validator without its test for a blank line
processUsersLine_NoBlankTest(line, idx) ==
  LET values == Split(line, ",")
      name == At(values, idx.name)
      email == At(values, idx.email)
      age == At(values, idx.age)
  IN IF Falsy(name) \/ Falsy(email) \/ Falsy(age)
     THEN [kind |-> "skipped", out |-> Null]
     ELSE LET processedLine == processUser(Trim(name), Trim(email), ParseInt(Trim(age)))
          IN IF processedLine = Null THEN [kind |-> "skipped", out |-> Null]
             ELSE [kind |-> "processed", out |-> processedLine]

\* The synchronous part of #processUsersLine: what the line is, and the line
\* to append when it is accepted.
processUsersLine(line, idx) ==
  IF Trim(line) = <<>> THEN [kind |-> "blank", out |-> Null]
  ELSE LET values == Split(line, ",")
           name == At(values, idx.name)
           email == At(values, idx.email)
           age == At(values, idx.age)
       IN IF Falsy(name) \/ Falsy(email) \/ Falsy(age)
          THEN [kind |-> "skipped", out |-> Null]
          ELSE LET processedLine == processUser(Trim(name), Trim(email), ParseInt(Trim(age)))
               IN IF processedLine # Null /\ processedLine # <<>>
                  THEN [kind |-> "processed", out |-> processedLine]
                  ELSE [kind |-> "skipped", out |-> Null]

\* #processHeaders: the positions of the three columns; ok is FALSE when the
\* method throws the malformed-header error.
\* the columns taken at the positions of the output header, whatever the
\* header line says
processHeaders_Positional(line) ==
  LET headers == Split(line, ",")
      idx == [name |-> 0, email |-> 1, age |-> 2]
  IN [idx |-> idx, ok |-> Len(headers) >= 3]

processHeaders(line) ==
  LET headers == Split(line, ",")
      idx == [name |-> IndexOf(headers, USER_HEADERS[1]),
              email |-> IndexOf(headers, USER_HEADERS[2]),
              age |-> IndexOf(headers, USER_HEADERS[3])]
  IN [idx |-> idx, ok |-> ~(idx.name = -1 \/ idx.email = -1 \/ idx.age = -1)]

(***************************************************************************)
(* Paths (node:path, POSIX), for paths without ".." and without repeated   *)
(* or trailing slashes.                                                    *)
(***************************************************************************)
\* path.dirname
pathDirname(p) ==
  LET slashes == {i \in 1..Len(p) : p[i] = "/"}
  IN IF slashes = {} THEN <<".">>
     ELSE LET last == CHOOSE i \in slashes : \A j \in slashes : j <= i
          IN IF last = 1 THEN <<"/">> ELSE SubSeq(p, 1, last - 1)

IsNamedSegment(seg) == seg # <<>> /\ seg # <<".">>

\* path.normalize: empty and "." segments are dropped
pathNormalize(p) ==
  LET segs == SelectSeq(Split(p, "/"), IsNamedSegment)
      absolute == p # <<>> /\ p[1] = "/"
  IN IF absolute THEN <<"/">> \o Join(segs, "/")
     ELSE IF segs = <<>> THEN <<".">>
     ELSE Join(segs, "/")

\* path.join of two paths
pathJoin(a, b) == pathNormalize(a \o <<"/">> \o b)

\* output.csv
DefaultName == <<"o", "u", "t", "p", "u", "t", ".", "c", "s", "v">>

\* every default output goes to output.csv of the working directory
OutputPath_WorkingDirectory(inputPath, outputArg) ==
  IF Falsy(outputArg) THEN DefaultName ELSE outputArg

\* outputFilePath || path.join(path.dirname(inputFilePath), 'output.csv')
OutputPath(inputPath, outputArg) ==
  IF Falsy(outputArg) THEN pathJoin(pathDirname(inputPath), DefaultName) ELSE outputArg

(***************************************************************************)
(* Files.  A file is absent, or holds a text.                              *)
(***************************************************************************)
NoFile == [exists |-> FALSE, content |-> <<>>]

File(text) == [exists |-> TRUE, content |-> text]

\* a write that does not truncate: data goes after what the file holds
writeFile_NoTruncate(f, data) == File(f.content \o data)

\* fs.writeFile(path, data): creates or truncates, then writes data
writeFile(f, data) == File(data)

\* fs.appendFile(path, data): creates the file when it is absent
appendFile(f, data) == File(f.content \o data)

\* errors, as the code can tell them apart (error.code, error.syscall)
NoError == [code |-> "none", syscall |-> "none"]

ENOENT(syscall) == [code |-> "ENOENT", syscall |-> syscall]

EIO(syscall) == [code |-> "EIO", syscall |-> syscall]

\* new Error('CSV file must contain "name", "email", and "age" headers')
MalformedHeader == [code |-> "MalformedHeader", syscall |-> "none"]

\* undefined.split(...)
TypeError == [code |-> "TypeError", syscall |-> "none"]

\* fs.unlink(path): removes the file, fails with ENOENT when there is none
unlink(f) == [file |-> NoFile, error |-> IF f.exists THEN NoError ELSE ENOENT("unlink")]

\* #safeDelete without its catch: the failure of fs.unlink is raised
safeDelete_Uncaught(f) == unlink(f)

\* #safeDelete: fs.unlink whose failure is caught (and logged unless ENOENT)
safeDelete(f) == [file |-> unlink(f).file, error |-> NoError]

\* readline over a read stream: the lines between the separators, without a
\* last empty line (a file ending with a separator, or a file of zero bytes)
readlineLines(text) ==
  LET parts == Split(text, EOL)
  IN IF parts[Len(parts)] = <<>> THEN SubSeq(parts, 1, Len(parts) - 1) ELSE parts

(***************************************************************************)
(* State of one run.                                                       *)
(***************************************************************************)
VARIABLES
  method,    \* the entry point called
  input,     \* the file at inputFilePath
  outFile,   \* the file at outputFilePath
  pc,        \* where the run is suspended
  stats,     \* the Stats object of the run
  idx,       \* #nameIndex, #emailIndex, #ageIndex
  pos,       \* lines pulled from the line source so far
  promises,  \* the units of the current batch (positions of their lines)
  units,     \* state of the unit launched for each line
  err,       \* the error the run caught
  vline,     \* validator specification: the raw line
  vidx,      \* validator specification: the column positions
  vres,      \* validator specification: the result of the validator
  inputFilePath,   \* the path the run was called with
  outputArg,       \* the output path the run was called with, or undefined
  outputFilePath,  \* the output path the run resolved
  peer,      \* another invocation of the static processUsers, when there is one
  peerFile,  \* the file at the peer's output path, when it is not outputFilePath
  sargs,     \* Stats specification: the arguments of new Stats(...)
  sobj,      \* Stats specification: the object constructed, or the error thrown
  sread,     \* Stats specification: the value last read from .total
  outcomes,  \* the outcomes of the calls made before this one on the same input
  reader     \* the line source of the run: none, pending (opening), open, closed

vars == <<method, input, outFile, pc, stats, idx, pos, promises, units, err,
          vline, vidx, vres, inputFilePath, outputArg, outputFilePath, peer,
          peerFile, sargs, sobj, sread, outcomes, reader>>

vvars == <<vline, vidx, vres>>

pvars == <<inputFilePath, outputArg, outputFilePath, peer, peerFile>>

svars == <<sargs, sobj, sread>>

Methods == {"static", "processUsers", "processUsersAsStream",
            "processUsersAsStreamAndConcurrency"}

Sequential == {"static", "processUsers", "processUsersAsStream"}

\* const batchSize = 1000, scaled down
batchSize == 2

\* new Stats()
Stats(processed, skipped) == [processed |-> processed, skipped |-> skipped]

(***************************************************************************)
(* The Stats class on arbitrary JavaScript values.                         *)
(***************************************************************************)
\* a JavaScript value: what typeof gives, whether it is NaN, its number
JsValue(type, nan, v) == [type |-> type, nan |-> nan, v |-> v]

JsNumber(n) == JsValue("number", FALSE, n)

JsNaN == JsValue("number", TRUE, 0)

JsUndefined == JsValue("undefined", FALSE, 0)

JsNull == JsValue("object", FALSE, 0)

\* the string '1'
JsString == JsValue("string", FALSE, 1)

\* a < 0 on numbers: false when a is NaN
JsNegative(a) == ~a.nan /\ a.v < 0

\* a >= 0 on numbers: false when a is NaN
JsNonNegative(a) == ~a.nan /\ a.v >= 0

\* a + b on numbers: NaN when either is NaN
JsAdd(a, b) == IF a.nan \/ b.nan THEN JsNaN ELSE JsNumber(a.v + b.v)

\* a default parameter: an undefined argument takes the default
JsDefault(a, d) == IF a = JsUndefined THEN d ELSE a

NoStats == [state |-> "none", processed |-> JsUndefined, skipped |-> JsUndefined]

Thrown(e) == [state |-> e, processed |-> JsUndefined, skipped |-> JsUndefined]

\* Stats.constructor(processed = 0, skipped = 0)
newStats(a, b) ==
  LET processed == JsDefault(a, JsNumber(0))
      skipped == JsDefault(b, JsNumber(0))
  IN IF processed.type # "number" \/ skipped.type # "number" THEN Thrown("TypeError")
     ELSE IF JsNegative(processed) \/ JsNegative(skipped) THEN Thrown("RangeError")
     ELSE [state |-> "constructed", processed |-> processed, skipped |-> skipped]

\* get total() on JavaScript values
JsTotal(o) == JsAdd(o.processed, o.skipped)

NoRead == JsValue("none", FALSE, 0)

\* no Stats object is under study
NoStatsCall == sargs = <<>> /\ sobj = NoStats /\ sread = NoRead

\* get total()
total(s) == s.processed + s.skipped

\* the lines the run iterates over: csv.split(EOL) of the whole text for
\* processUsers, the readline iterator for the others
Lines ==
  IF method = "processUsers" THEN Split(input.content, EOL)
  ELSE readlineLines(input.content)

Settled(u) == units[u] \in {"fulfilled", "rejected"}

HeaderText == Join(USER_HEADERS, ",")

(***************************************************************************)
(* Steps of the run, one per resumption of the async function.             *)
(***************************************************************************)
\* processUsers: fs.readFile, the blank test, and the return of empty stats
ReadFile ==
  /\ pc = "start" /\ method = "processUsers"
  /\ \/ /\ ~input.exists
        /\ err' = ENOENT("open") /\ pc' = "catch"
     \/ /\ input.exists
        /\ err' = EIO("read") /\ pc' = "catch"
     \/ /\ input.exists
        /\ pc' = IF Trim(input.content) = <<>> THEN "returned" ELSE "write"
        /\ UNCHANGED err
  /\ UNCHANGED <<method, input, outFile, stats, idx, pos, promises, units, vvars, pvars, svars, outcomes, reader>>

\* fs.writeFile of the header line; processUsers goes on to split the text
\* and resolve the header
WriteHeader ==
  /\ \/ pc = "start" /\ method # "processUsers"
     \/ pc = "write" /\ method = "processUsers"
  /\ outFile' = writeFile(outFile, HeaderText)
  /\ IF method = "processUsers"
     THEN LET h == processHeaders(Lines[1])
          IN /\ idx' = h.idx
             /\ pos' = 1
             /\ IF h.ok THEN pc' = "loop" /\ err' = err
                ELSE pc' = "catch" /\ err' = MalformedHeader
     ELSE /\ pc' = IF method = "static" THEN "loop" ELSE "header"
          /\ UNCHANGED <<idx, pos, err>>
  /\ UNCHANGED <<method, input, stats, promises, units, vvars, pvars, svars, outcomes>>
  /\ reader' = IF method = "static" THEN "pending" ELSE reader

\* const { value } = await lines.next(); this.#processHeaders(value)
PullHeader ==
  /\ pc = "header"
  /\ \/ /\ ~input.exists
        /\ err' = ENOENT("open") /\ pc' = "catch"
        /\ UNCHANGED <<idx, pos>>
     \/ /\ input.exists
        /\ err' = EIO("read") /\ pc' = "catch"
        /\ UNCHANGED <<idx, pos>>
     \/ /\ input.exists /\ Len(Lines) = 0
        /\ err' = TypeError /\ pc' = "catch"
        /\ UNCHANGED <<idx, pos>>
     \/ /\ input.exists /\ Len(Lines) > 0
        /\ LET h == processHeaders(Lines[1])
           IN /\ idx' = h.idx
              /\ pos' = 1
              /\ IF h.ok THEN pc' = "loop" /\ err' = err
                 ELSE pc' = "catch" /\ err' = MalformedHeader
  /\ UNCHANGED <<method, input, outFile, stats, promises, units, vvars, pvars, svars, outcomes>>
  /\ reader' = IF pc' = "catch" /\ err' # MalformedHeader THEN "closed" ELSE "open"

\* a validator that counts a blank line as skipped
Launch_CountsBlank(u, line) ==
  LET r == processUsersLine(line, idx)
  IN /\ units' = [units EXCEPT ![u] = IF r.kind = "processed" THEN "appending" ELSE "fulfilled"]
     /\ stats' = IF r.kind # "processed"
                 THEN Stats(stats.processed, stats.skipped + 1)
                 ELSE stats

\* a unit that counts its line as processed before it appends it
Launch_CountsBeforeAppend(u, line) ==
  LET r == processUsersLine(line, idx)
  IN /\ units' = [units EXCEPT ![u] = IF r.kind = "processed" THEN "appending" ELSE "fulfilled"]
     /\ stats' = IF r.kind = "skipped"
                 THEN Stats(stats.processed, stats.skipped + 1)
                 ELSE IF r.kind = "processed"
                 THEN Stats(stats.processed + 1, stats.skipped)
                 ELSE stats

\* the call this.#processUsersLine(line, stats) up to its first await
Launch(u, line) ==
  LET r == processUsersLine(line, idx)
  IN /\ units' = [units EXCEPT ![u] = IF r.kind = "processed" THEN "appending" ELSE "fulfilled"]
     /\ stats' = IF r.kind = "skipped"
                 THEN Stats(stats.processed, stats.skipped + 1)
                 ELSE stats

\* a loop that ends at the first line the validator rejects
Pull_StopAtInvalid ==
  /\ pc = "loop"
  /\ \/ /\ method # "processUsers"
        /\ err' = IF input.exists THEN EIO("read") ELSE ENOENT("open")
        /\ pc' = "catch"
        /\ UNCHANGED <<stats, idx, pos, promises, units>>
     \/ /\ input.exists /\ pos < Len(Lines)
        /\ pos' = pos + 1
        /\ IF method = "static" /\ pos = 0
           THEN LET h == processHeaders(Lines[1])
                IN /\ idx' = h.idx
                   /\ IF h.ok THEN pc' = "loop" /\ err' = err
                      ELSE pc' = "catch" /\ err' = MalformedHeader
                   /\ UNCHANGED <<stats, promises, units>>
           ELSE /\ Launch(pos + 1, Lines[pos + 1])
                /\ IF processUsersLine(Lines[pos + 1], idx).kind = "skipped"
                   THEN /\ promises' = promises
                        /\ pc' = IF method \notin Sequential /\ Len(promises) > 0
                                 THEN "finalBarrier" ELSE "check"
                   ELSE IF method \in Sequential
                   THEN pc' = "await" /\ promises' = promises
                   ELSE /\ promises' = Append(promises, pos + 1)
                        /\ pc' = IF Len(promises) + 1 >= batchSize THEN "barrier" ELSE "loop"
                /\ UNCHANGED <<idx, err>>
     \/ /\ input.exists /\ pos = Len(Lines)
        /\ pc' = IF method \notin Sequential /\ Len(promises) > 0
                 THEN "finalBarrier" ELSE "check"
        /\ UNCHANGED <<stats, idx, pos, promises, units, err>>
  /\ UNCHANGED <<method, input, outFile, vvars, pvars, svars, outcomes>>
  /\ reader' = IF method = "processUsers" THEN reader
               ELSE IF pc' = "loop" \/ pc' = "await" \/ pc' = "barrier" THEN "open"
               ELSE "closed"

\* one turn of the loop over the lines
Pull ==
  /\ pc = "loop"
  /\ \/ /\ method # "processUsers"
        /\ err' = IF input.exists THEN EIO("read") ELSE ENOENT("open")
        /\ pc' = "catch"
        /\ UNCHANGED <<stats, idx, pos, promises, units>>
     \/ /\ input.exists /\ pos < Len(Lines)
        /\ pos' = pos + 1
        /\ IF method = "static" /\ pos = 0
           THEN LET h == processHeaders(Lines[1])
                IN /\ idx' = h.idx
                   /\ IF h.ok THEN pc' = "loop" /\ err' = err
                      ELSE pc' = "catch" /\ err' = MalformedHeader
                   /\ UNCHANGED <<stats, promises, units>>
           ELSE /\ Launch(pos + 1, Lines[pos + 1])
                /\ IF method \in Sequential
                   THEN pc' = "await" /\ promises' = promises
                   ELSE /\ promises' = Append(promises, pos + 1)
                        /\ pc' = IF Len(promises) + 1 >= batchSize THEN "barrier" ELSE "loop"
                /\ UNCHANGED <<idx, err>>
     \/ /\ input.exists /\ pos = Len(Lines)
        /\ pc' = IF method \notin Sequential /\ Len(promises) > 0
                 THEN "finalBarrier" ELSE "check"
        /\ UNCHANGED <<stats, idx, pos, promises, units, err>>
  /\ UNCHANGED <<method, input, outFile, vvars, pvars, svars, outcomes>>
  /\ reader' = IF method = "processUsers" THEN reader
               ELSE IF pc' = "loop" \/ pc' = "await" \/ pc' = "barrier" THEN "open"
               ELSE "closed"

\* the loop goes on to the next line without awaiting the unit
Await_NoWait ==
  /\ pc = "await"
  /\ IF units[pos] = "rejected"
     THEN pc' = "catch" /\ err' = EIO("write")
     ELSE pc' = "loop" /\ err' = err
  /\ UNCHANGED <<method, input, outFile, stats, idx, pos, promises, units, vvars, pvars, svars, outcomes>>
  /\ reader' = IF pc' = "catch" /\ reader = "open" THEN "closed" ELSE reader

\* await this.#processUsersLine(line, stats) of the sequential entry points
Await ==
  /\ pc = "await" /\ Settled(pos)
  /\ IF units[pos] = "rejected"
     THEN pc' = "catch" /\ err' = EIO("write")
     ELSE pc' = "loop" /\ err' = err
  /\ UNCHANGED <<method, input, outFile, stats, idx, pos, promises, units, vvars, pvars, svars, outcomes>>
  /\ reader' = IF pc' = "catch" /\ reader = "open" THEN "closed" ELSE reader

\* the wait for the batch ends only when every unit of it has succeeded
Barrier_AllFulfilled ==
  /\ pc \in {"barrier", "finalBarrier"}
  /\ \A i \in 1..Len(promises) : units[promises[i]] = "fulfilled"
  /\ IF pc = "barrier"
     THEN pc' = "loop" /\ promises' = <<>>
     ELSE pc' = "check" /\ promises' = promises
  /\ UNCHANGED <<method, input, outFile, stats, idx, pos, units, err, vvars, pvars, svars, outcomes, reader>>

\* full batches are awaited, the last and partial one is not
Barrier_NoFinalWait ==
  /\ pc \in {"barrier", "finalBarrier"}
  /\ pc = "barrier" => \A i \in 1..Len(promises) : Settled(promises[i])
  /\ IF pc = "barrier"
     THEN pc' = "loop" /\ promises' = <<>>
     ELSE pc' = "check" /\ promises' = promises
  /\ UNCHANGED <<method, input, outFile, stats, idx, pos, units, err, vvars, pvars, svars, outcomes, reader>>

\* the wait for the batch ends as soon as one of its units has failed
Barrier_FailFast ==
  /\ pc \in {"barrier", "finalBarrier"}
  /\ \/ \A i \in 1..Len(promises) : Settled(promises[i])
     \/ \E i \in 1..Len(promises) : units[promises[i]] = "rejected"
  /\ IF pc = "barrier"
     THEN pc' = "loop" /\ promises' = <<>>
     ELSE pc' = "check" /\ promises' = promises
  /\ UNCHANGED <<method, input, outFile, stats, idx, pos, units, err, vvars, pvars, svars, outcomes, reader>>

\* the batch is dropped without awaiting its units
Barrier_NoWait ==
  /\ pc \in {"barrier", "finalBarrier"}
  /\ IF pc = "barrier"
     THEN pc' = "loop" /\ promises' = <<>>
     ELSE pc' = "check" /\ promises' = promises
  /\ UNCHANGED <<method, input, outFile, stats, idx, pos, units, err, vvars, pvars, svars, outcomes, reader>>

\* await Promise.allSettled(promises)
Barrier ==
  /\ pc \in {"barrier", "finalBarrier"}
  /\ \A i \in 1..Len(promises) : Settled(promises[i])
  /\ IF pc = "barrier"
     THEN pc' = "loop" /\ promises' = <<>>
     ELSE pc' = "check" /\ promises' = promises
  /\ UNCHANGED <<method, input, outFile, stats, idx, pos, units, err, vvars, pvars, svars, outcomes, reader>>

\* if (stats.processed === 0) await safeDelete; return stats
Finish ==
  /\ pc = "check"
  /\ IF stats.processed = 0
     THEN LET d == safeDelete(outFile)
          IN /\ outFile' = d.file
             /\ IF d.error = NoError THEN pc' = "returned" /\ err' = err
                ELSE pc' = "rejected" /\ err' = d.error
     ELSE pc' = "returned" /\ UNCHANGED <<outFile, err>>
  /\ UNCHANGED <<method, input, stats, idx, pos, promises, units, vvars, pvars, svars, outcomes, reader>>

\* catch (error) { await safeDelete; throw error }
Catch ==
  /\ pc = "catch"
  /\ LET d == safeDelete(outFile)
     IN /\ outFile' = d.file
        /\ err' = IF d.error = NoError THEN err ELSE d.error
  /\ pc' = "rejected"
  /\ UNCHANGED <<method, input, stats, idx, pos, promises, units, vvars, pvars, svars, outcomes, reader>>

\* fs.appendFile of a unit writes its line
AppendOk(u) ==
  /\ units[u] = "appending"
  /\ outFile' = appendFile(outFile, <<EOL>> \o processUsersLine(Lines[u], idx).out)
  /\ units' = [units EXCEPT ![u] = "written"]
  /\ UNCHANGED <<method, input, pc, stats, idx, pos, promises, err, vvars, pvars, svars, outcomes, reader>>

\* fs.appendFile of a unit fails: the unit rejects
AppendFail(u) ==
  /\ units[u] = "appending"
  /\ units' = [units EXCEPT ![u] = "rejected"]
  /\ UNCHANGED <<method, input, outFile, pc, stats, idx, pos, promises, err, vvars, pvars, svars, outcomes, reader>>

\* the unit writes back the count of the units counted before its batch,
\* plus one
Resume_LostUpdate(u) ==
  /\ units[u] = "written"
  /\ stats' = Stats(Cardinality({v \in DOMAIN units :
                                  /\ units[v] = "fulfilled"
                                  /\ processUsersLine(Lines[v], idx).kind = "processed"
                                  /\ \A i \in 1..Len(promises) : promises[i] # v}) + 1,
                    stats.skipped)
  /\ units' = [units EXCEPT ![u] = "fulfilled"]
  /\ UNCHANGED <<method, input, outFile, pc, idx, pos, promises, err, vvars, pvars, svars, outcomes, reader>>

\* the unit resumes after its append: stats.processed++
Resume(u) ==
  /\ units[u] = "written"
  /\ stats' = Stats(stats.processed + 1, stats.skipped)
  /\ units' = [units EXCEPT ![u] = "fulfilled"]
  /\ UNCHANGED <<method, input, outFile, pc, idx, pos, promises, err, vvars, pvars, svars, outcomes, reader>>

Unit == \E u \in DOMAIN units : AppendOk(u) \/ AppendFail(u) \/ Resume(u)

(***************************************************************************)
(* Inputs of the pipeline runs.                                            *)
(***************************************************************************)
\* name,email,age
LineHeader == HeaderText

\* name,email
LineBadHeader == <<"n", "a", "m", "e", ",", "e", "m", "a", "i", "l">>

LineEmpty == <<>>

\* al,a@b,7
LineValid == <<"a", "l", ",", "a", "@", "b", ",", "7">>

\*  bo ,b@c,25x
LineValidLoose == <<" ", "b", "o", " ", ",", "b", "@", "c", ",", "2", "5", "x">>

\* al,ab,7
LineNoAt == <<"a", "l", ",", "a", "b", ",", "7">>

LineSet == {LineHeader, LineBadHeader, LineEmpty, LineValid, LineValidLoose, LineNoAt}

\* the sequences of 1..n elements of S
RECURSIVE SeqsUpTo(_, _)
SeqsUpTo(S, n) ==
  IF n = 0 THEN {}
  ELSE LET shorter == SeqsUpTo(S, n - 1)
       IN {<<x>> : x \in S} \cup shorter \cup {Append(q, x) : q \in shorter, x \in S}

InputFiles == {NoFile} \cup {File(Join(ls, EOL)) : ls \in SeqsUpTo(LineSet, MaxLines)}

\* what may be at the output path before the run
OldFile == File(<<"o", "l", "d">>)

NoIdx == [name |-> -1, email |-> -1, age |-> -1]

NoResult == [kind |-> "none", out |-> Null]

\* d/a
PathA == <<"d", "/", "a">>

\* no other invocation
NoPeer == [pc |-> "off", lines |-> <<>>, pos |-> 0, stats |-> Stats(0, 0), path |-> <<>>]

\* the run is the only one, called with PathA and no output path
Alone ==
  /\ inputFilePath = PathA
  /\ outputArg = Undefined
  /\ outputFilePath = OutputPath(PathA, Undefined)
  /\ peer = NoPeer
  /\ peerFile = NoFile

\* const lines = this.#getLines(): the two streaming entry points of the
\* instance create their line source at the call, before anything else
ReaderAtCall(m) ==
  IF m \in {"processUsersAsStream", "processUsersAsStreamAndConcurrency"}
  THEN "pending" ELSE "none"

RunInit(m, in, out) ==
  /\ method = m
  /\ input = in
  /\ outFile = out
  /\ pc = "start"
  /\ stats = Stats(0, 0)
  /\ idx = NoIdx
  /\ pos = 0
  /\ promises = <<>>
  /\ units = [u \in 1..Len(Split(in.content, EOL)) |-> "none"]
  /\ err = NoError
  /\ reader = ReaderAtCall(m)

Init ==
  /\ \E m \in Methods, in \in InputFiles, out \in {NoFile, OldFile} : RunInit(m, in, out)
  /\ vline = <<>> /\ vidx = NoIdx /\ vres = NoResult
  /\ Alone
  /\ NoStatsCall
  /\ outcomes = <<>>

Next ==
  \/ ReadFile
  \/ WriteHeader
  \/ PullHeader
  \/ Pull
  \/ Await
  \/ Barrier
  \/ Finish
  \/ Catch
  \/ Unit

Spec == Init /\ [][Next]_vars

TypeOK ==
  /\ method \in Methods
  /\ pc \in {"start", "write", "header", "loop", "await", "barrier", "finalBarrier",
             "check", "catch", "returned", "rejected"}
  /\ stats.processed \in Nat /\ stats.skipped \in Nat
  /\ pos \in 0..Len(Lines)
  /\ \A u \in DOMAIN units : units[u] \in {"none", "appending", "written", "fulfilled", "rejected"}

(***************************************************************************)
(* The validator on its own: a line built from a name, an email and an age *)
(* field placed at the resolved positions, possibly cut short.             *)
(***************************************************************************)
\* the strings of at most n characters of C
RECURSIVE StringsUpTo(_, _)
StringsUpTo(C, n) ==
  IF n = 0 THEN {<<>>}
  ELSE LET shorter == StringsUpTo(C, n - 1)
       IN shorter \cup {Append(q, c) : q \in shorter, c \in C}

NameFields == StringsUpTo({"a", " "}, MaxFieldLen)

EmailFields == StringsUpTo({"a", "@", " "}, MaxFieldLen)

AgeFields == StringsUpTo({"0", "1", "-", "a", " "}, MaxFieldLen)

\* the orders in which a header can name the three columns
IndexTriples ==
  {t \in [name : 0..2, email : 0..2, age : 0..2] :
     t.name # t.email /\ t.name # t.age /\ t.email # t.age}

\* the line that holds the three fields at the positions t, cut to k fields
LineOf(n, e, g, t, k) ==
  LET byPos == [p \in 1..3 |-> IF t.name = p - 1 THEN n
                               ELSE IF t.email = p - 1 THEN e ELSE g]
  IN Join(SubSeq(byPos, 1, k), ",")

ValidatorInit ==
  /\ RunInit("static", NoFile, NoFile)
  /\ Alone
  /\ NoStatsCall
  /\ outcomes = <<>>
  /\ \E n \in NameFields, e \in EmailFields, g \in AgeFields, t \in IndexTriples, k \in 0..3 :
       vline = LineOf(n, e, g, t, k) /\ vidx = t
  /\ vres = NoResult

\* one call of the validator on the drawn line
Validate ==
  /\ vres = NoResult
  /\ vres' = processUsersLine(vline, vidx)
  /\ UNCHANGED <<method, input, outFile, pc, stats, idx, pos, promises, units, err,
                 vline, vidx, pvars, svars, outcomes, reader>>

ValidatorNext == Validate

SpecValidator == ValidatorInit /\ [][ValidatorNext]_vars

(***************************************************************************)
(* Vocabulary of the properties.                                           *)
(***************************************************************************)
Concurrent == method = "processUsersAsStreamAndConcurrency"

Terminal == pc \in {"returned", "rejected"}

\* the positions of the non-blank lines that follow the header line
NonBlankData == {i \in 2..Len(Lines) : Trim(Lines[i]) # <<>>}

\* the column positions the header line of the input gives
HeaderIdx == processHeaders(Lines[1]).idx

\* the positions of the data lines the validator accepts
AcceptedData == {i \in 2..Len(Lines) : processUsersLine(Lines[i], HeaderIdx).kind = "processed"}

\* the lines of the output file
OutLines == Split(outFile.content, EOL)

Occurrences(seq, x) == Cardinality({i \in DOMAIN seq : seq[i] = x})

\* units launched and not yet settled
InFlight == {u \in DOMAIN units : units[u] \in {"appending", "written"}}

ZeroBytes == File(<<>>)

(***************************************************************************)
(* Properties of the runs.                                                 *)
(***************************************************************************)
\* C1: when a run completes without error, stats.processed + stats.skipped
\* equals the number of non-blank lines that follow the header line.
C1_TotalCountsNonBlankLines ==
  pc = "returned" => total(stats) = Cardinality(NonBlankData)

\* C2: when a run completes without error and with at least one accepted
\* line, the output file is the header followed by exactly one transformed
\* line for each accepted input line and nothing else, so that the number of
\* data lines equals stats.processed.
C2_OutputIsHeaderPlusAccepted ==
  (pc = "returned" /\ stats.processed >= 1) =>
    /\ outFile.exists
    /\ OutLines[1] = HeaderText
    /\ Len(OutLines) - 1 = stats.processed
    /\ Len(OutLines) - 1 = Cardinality(AcceptedData)
    /\ \A i \in AcceptedData :
         LET x == processUsersLine(Lines[i], HeaderIdx).out
         IN Occurrences(Tail(OutLines), x) =
              Cardinality({j \in AcceptedData : processUsersLine(Lines[j], HeaderIdx).out = x})

\* C3: in every state of processUsersAsStreamAndConcurrency the number of
\* launched units that have not settled is at most the batch capacity.
C3_InFlightAtMostBatchSize ==
  Concurrent => Cardinality(InFlight) <= batchSize

\* C3 witness: the batch is full, every unit of it is in flight, and the
\* input has more lines to give.
C3_Witness ==
  Concurrent /\ Cardinality(InFlight) = batchSize /\ pos < Len(Lines)

\* C4: if the append of an accepted line fails in a unit, the run of
\* processUsersAsStreamAndConcurrency does not return a Stats value: it
\* deletes the output file and re-raises the append error.
C4_AppendFailureAborts ==
  (Concurrent /\ \E u \in DOMAIN units : units[u] = "rejected") =>
    pc # "returned"

\* C5: after a run of processUsersAsStreamAndConcurrency has failed, no file
\* exists at the output path, also when units were in flight at the abort.
C5_FailedRunLeavesNoFile ==
  (Concurrent /\ pc = "rejected") => ~outFile.exists

\* C6: whenever a run completes with stats.processed = 0, no file exists at
\* the output path, whether or not one existed before the run.
C6_ZeroAcceptedLeavesNoFile ==
  (pc = "returned" /\ stats.processed = 0) => ~outFile.exists

\* C7: on an input of zero bytes every entry point completes without error,
\* returns processed = 0 and skipped = 0, and leaves no output file of its
\* own (a run can only fail by a read fault of the line source).
C7_ZeroByteInputCompletes ==
  input = ZeroBytes =>
    /\ err \in {NoError, EIO("read")}
    /\ pc = "returned" => (stats = Stats(0, 0) /\ outFile \in {NoFile, OldFile})

\* C8: if the first line of the input lacks one of the column names, the run
\* fails with the malformed-header error before any data line is validated,
\* counted or appended, and no output file exists afterwards (a read fault
\* of the line source apart).
C8_MalformedHeaderFails ==
  (input.exists /\ Len(readlineLines(input.content)) >= 1 /\ ~processHeaders(Lines[1]).ok) =>
    /\ \A u \in DOMAIN units : units[u] = "none"
    /\ stats = Stats(0, 0)
    /\ pc # "returned"
    /\ pc \in {"catch", "rejected"} => err \in {MalformedHeader, EIO("read")}
    /\ pc = "rejected" => ~outFile.exists

\* C9: if the input path does not exist, the run does not complete with
\* zero lines: it stops only by rejecting, and the error it catches and
\* re-raises is the ENOENT of the failed open, not an error of the delete.
C9_MissingInputRejectsWithENOENT ==
  ~input.exists =>
    /\ pc # "returned"
    /\ stats = Stats(0, 0)
    /\ pc \in {"catch", "rejected"} => err = ENOENT("open")
    /\ pc = "rejected" \/ ENABLED Next

\* C9 witness: a run on a missing input has rejected, and its delete found
\* no output file to remove.
C9_Witness ==
  ~input.exists /\ pc = "rejected" /\ method = "processUsers" /\ err = ENOENT("open")

(***************************************************************************)
(* Properties of the validator, stated without the parser's own helpers.   *)
(***************************************************************************)
CommasBefore(line, p) == Cardinality({i \in 1..(p - 1) : line[i] = ","})

\* the k-th comma-separated field of the line (k from 0) exists
HasField(line, k) == k >= 0 /\ k <= CommasBefore(line, Len(line) + 1)

\* the k-th comma-separated field of the line
FieldAt(line, k) ==
  LET ps == {p \in 1..Len(line) : line[p] # "," /\ CommasBefore(line, p) = k}
  IN IF ps = {} THEN <<>>
     ELSE SubSeq(line, CHOOSE p \in ps : \A q \in ps : p <= q,
                       CHOOSE p \in ps : \A q \in ps : p >= q)

\* s without its leading and trailing white space
Stripped(s) ==
  LET ps == {p \in 1..Len(s) : s[p] \notin {" ", EOL}}
  IN IF ps = {} THEN <<>>
     ELSE SubSeq(s, CHOOSE p \in ps : \A q \in ps : p <= q,
                    CHOOSE p \in ps : \A q \in ps : p >= q)

\* the number of digits s starts with
LeadingDigits(s) ==
  CHOOSE n \in 0..Len(s) :
    /\ \A i \in 1..n : IsDigit(s[i])
    /\ n < Len(s) => ~IsDigit(s[n + 1])

\* the value of a string of digits
DecimalValue(ds) ==
  LET v[i \in 0..Len(ds)] == IF i = 0 THEN 0 ELSE 10 * v[i - 1] + DigitVal(ds[i])
  IN v[Len(ds)]

\* s is an optional sign followed by at least one digit, and the number its
\* sign and leading digits denote is not negative
HasNonNegativePrefix(s) ==
  LET body == IF s # <<>> /\ s[1] \in {"+", "-"} THEN Tail(s) ELSE s
      n == LeadingDigits(body)
  IN /\ n >= 1
     /\ (s[1] = "-") => DecimalValue(SubSeq(body, 1, n)) = 0

\* the non-negative number the leading digits of s denote
PrefixValue(s) ==
  LET body == IF s # <<>> /\ s[1] \in {"+", "-"} THEN Tail(s) ELSE s
  IN DecimalValue(SubSeq(body, 1, LeadingDigits(body)))

\* t is the decimal numeral of n, without leading zeros
IsNumeralOf(t, n) ==
  /\ t # <<>>
  /\ \A i \in 1..Len(t) : IsDigit(t[i])
  /\ Len(t) > 1 => t[1] # "0"
  /\ DecimalValue(t) = n

\* u is s with every lower-case letter replaced by its capital
IsUpperCaseOf(u, s) ==
  /\ Len(u) = Len(s)
  /\ \A i \in 1..Len(s) :
       IF \E k \in 1..26 : LowerCase[k] = s[i]
       THEN \E k \in 1..26 : LowerCase[k] = s[i] /\ UpperCase[k] = u[i]
       ELSE u[i] = s[i]

\* C10: a non-blank line is classified processed exactly when its three
\* indexed fields exist and are non-empty, the trimmed email contains '@' and
\* the trimmed age parses to a non-negative integer, and skipped otherwise;
\* a processed line yields the trimmed name in upper case, the trimmed email
\* and the parsed age, joined by commas.
C10_ValidatorClassifies ==
  (vres # NoResult /\ Stripped(vline) # <<>>) =>
    LET name == FieldAt(vline, vidx.name)
        email == FieldAt(vline, vidx.email)
        age == FieldAt(vline, vidx.age)
        valid == /\ HasField(vline, vidx.name) /\ name # <<>>
                 /\ HasField(vline, vidx.email) /\ email # <<>>
                 /\ HasField(vline, vidx.age) /\ age # <<>>
                 /\ \E i \in 1..Len(Stripped(email)) : Stripped(email)[i] = "@"
                 /\ HasNonNegativePrefix(Stripped(age))
    IN /\ vres.kind = (IF valid THEN "processed" ELSE "skipped")
       /\ valid =>
            /\ CommasBefore(vres.out, Len(vres.out) + 1) = 2
            /\ IsUpperCaseOf(FieldAt(vres.out, 0), Stripped(name))
            /\ FieldAt(vres.out, 1) = Stripped(email)
            /\ IsNumeralOf(FieldAt(vres.out, 2), PrefixValue(Stripped(age)))

\* C10 witness: a line whose columns are not in the output order is
\* accepted, and its output line is shorter than the line (white space or
\* characters after the age digits were dropped).
C10_Witness ==
  /\ vres.kind = "processed"
  /\ vidx.age = 0
  /\ Len(vres.out) < Len(vline)

\* the three indexed fields of the drawn line exist and are not empty
FieldsPresent ==
  /\ HasField(vline, vidx.name) /\ FieldAt(vline, vidx.name) # <<>>
  /\ HasField(vline, vidx.email) /\ FieldAt(vline, vidx.email) # <<>>
  /\ HasField(vline, vidx.age) /\ FieldAt(vline, vidx.age) # <<>>

\* C11: a data line in which one of the three required field values is
\* empty after trimming is classified skipped, with nothing to write.
C11_EmptyAfterTrimIsSkipped ==
  (/\ vres # NoResult
   /\ Stripped(vline) # <<>>
   /\ \E k \in {vidx.name, vidx.email, vidx.age} :
        HasField(vline, k) /\ Stripped(FieldAt(vline, k)) = <<>>)
  => (vres.kind = "skipped" /\ vres.out = Null)

MaxColumnLines == 2

\* id,name,email,age
HeaderWithId ==
  <<"i", "d", ",", "n", "a", "m", "e", ",", "e", "m", "a", "i", "l", ",", "a", "g", "e">>

\* age,x,email,name
HeaderPermuted ==
  <<"a", "g", "e", ",", "x", ",", "e", "m", "a", "i", "l", ",", "n", "a", "m", "e">>

ColumnHeaders == {HeaderText, HeaderWithId, HeaderPermuted}

\* 1,al,a@b,7
LineWithId == <<"1", ",", "a", "l", ",", "a", "@", "b", ",", "7">>

\* 7,x,c@d,bo
LinePermuted == <<"7", ",", "x", ",", "c", "@", "d", ",", "b", "o">>

\* al,a@b,7,x
LineExtraField == <<"a", "l", ",", "a", "@", "b", ",", "7", ",", "x">>

\* 1,al,a@b,7,x
LineWithIdExtraField == <<"1", ",", "a", "l", ",", "a", "@", "b", ",", "7", ",", "x">>

\* a line of one space
LineBlank == <<" ">>

ColumnLines ==
  {LineValid, LineWithId, LinePermuted, LineExtraField, LineWithIdExtraField,
   LineEmpty, LineBlank}

ColumnFiles ==
  {File(Join(<<h>> \o ls, EOL)) :
     h \in ColumnHeaders, ls \in {<<>>} \cup SeqsUpTo(ColumnLines, MaxColumnLines)}

ColumnsInit ==
  /\ \E m \in Methods, in \in ColumnFiles : RunInit(m, in, NoFile)
  /\ vline = <<>> /\ vidx = NoIdx /\ vres = NoResult
  /\ Alone
  /\ NoStatsCall
  /\ outcomes = <<>>

SpecColumns == ColumnsInit /\ [][Next]_vars

\* the number of comma-separated fields of a line
FieldCount(line) == CommasBefore(line, Len(line) + 1) + 1

\* the data lines that have more fields than the header has columns
TooManyFields == {u \in 2..Len(Lines) : FieldCount(Lines[u]) > FieldCount(Lines[1])}

\* C12: a data line with more comma-separated fields than the header has
\* columns is rejected: once read it is settled as skipped, it never reaches
\* an append, and a run in which it is the only data line returns with no
\* output file.
C12_TooManyFieldsRejected ==
  \A u \in TooManyFields :
    /\ units[u] \in {"none", "fulfilled"}
    /\ units[u] = "fulfilled" => stats.skipped >= 1
    /\ (pc = "returned" /\ Len(Lines) = 2) => ~outFile.exists

\* the position (from 0) of the first column of header line h named c
ColumnOf(h, c) ==
  CHOOSE k \in 0..(FieldCount(h) - 1) :
    /\ FieldAt(h, k) = c
    /\ \A j \in 0..(k - 1) : FieldAt(h, j) # c

\* o is the three-column line name,email,age of the data line, its fields
\* read at the positions header line h gives them
IsUserLineOf(o, line, h) ==
  /\ FieldCount(o) = 3
  /\ IsUpperCaseOf(FieldAt(o, 0), Stripped(FieldAt(line, ColumnOf(h, USER_HEADERS[1]))))
  /\ FieldAt(o, 1) = Stripped(FieldAt(line, ColumnOf(h, USER_HEADERS[2])))
  /\ IsNumeralOf(FieldAt(o, 2), PrefixValue(Stripped(FieldAt(line, ColumnOf(h, USER_HEADERS[3])))))

\* the data lines whose append has happened
Appended ==
  LET ls == Lines
  IN {u \in 2..Len(ls) : /\ units[u] \in {"written", "fulfilled"}
                         /\ processUsersLine(ls[u], idx).kind = "processed"}

\* C17: wherever the header names the three required columns among others,
\* the output starts with the header name,email,age and each further line is
\* a data line in that three-column order, its fields read at the header's
\* positions and its other columns dropped.
C17_ColumnsResolvedByHeader ==
  outFile.exists =>
    /\ pc # "rejected" => OutLines[1] = HeaderText
    /\ \A j \in 2..Len(OutLines) :
         \E u \in Appended : IsUserLineOf(OutLines[j], Lines[u], Lines[1])
    /\ pc # "rejected" =>
         \A u \in Appended : \E j \in 2..Len(OutLines) :
           IsUserLineOf(OutLines[j], Lines[u], Lines[1])

\* C17 witness: a run on a header that names the columns in another order
\* returns with an appended line, whose fields sit elsewhere in its data line.
C17_Witness ==
  /\ pc = "returned"
  /\ Lines[1] = HeaderPermuted
  /\ Len(OutLines) = 2
  /\ \E u \in Appended :
       /\ IsUserLineOf(OutLines[2], Lines[u], Lines[1])
       /\ FieldAt(OutLines[2], 1) # FieldAt(Lines[u], 1)

\* C14: processing an empty or all-white-space data line changes nothing:
\* the step that reads such a line leaves both counters and the output file
\* as they were, and the line's processing is over with that step.
C14_BlankLineChangesNothing ==
  [][(/\ pc = "loop" /\ pos >= 1 /\ pos' = pos + 1
      /\ Stripped(Lines[pos + 1]) = <<>>)
     => (/\ stats' = stats
         /\ outFile' = outFile
         /\ units'[pos + 1] = "fulfilled")]_vars

\* C14 witness: a line of white space has been read after an accepted line
\* was counted, and the output holds the header and that accepted line.
C14_Witness ==
  /\ pos >= 3
  /\ Lines[pos] = LineBlank
  /\ units[pos] = "fulfilled"
  /\ stats = Stats(1, 0)
  /\ Len(OutLines) = 2

\* the line the validator gives for data line u of the input
OutOf(u) == processUsersLine(Lines[u], HeaderIdx).out

\* C15: two runs on the same input return the same Stats and output files
\* with the same multiset of lines, whatever the order in which units
\* complete: what a run returns is determined by its input alone, the
\* counts by the lines the validator accepts and rejects, and the output by
\* the header and one line for each accepted line.
C15_ResultDeterminedByInput ==
  pc = "returned" =>
    /\ stats = Stats(Cardinality(AcceptedData), Cardinality(NonBlankData \ AcceptedData))
    /\ (outFile.exists /\ outFile # OldFile) =>
         \A o \in {OutLines[j] : j \in DOMAIN OutLines} \cup {OutOf(u) : u \in AcceptedData} :
           Occurrences(OutLines, o) =
             (IF o = HeaderText THEN 1 ELSE 0) + Cardinality({u \in AcceptedData : OutOf(u) = o})

\* the elements of a set of numbers, in increasing order
RECURSIVE Ascending(_)
Ascending(S) ==
  IF S = {} THEN <<>>
  ELSE LET least == CHOOSE x \in S : \A y \in S : x <= y
       IN <<least>> \o Ascending(S \ {least})

\* C16: in the sequential entry points the output is the header line
\* directly followed by the transformed lines of the accepted input lines
\* appended so far, in the order of their lines in the input.
C16_SequentialKeepsInputOrder ==
  (method \in Sequential /\ outFile.exists /\ outFile # OldFile) =>
    LET order == Ascending(Appended)
        ls == Lines
    IN OutLines = <<HeaderText>> \o
                  [i \in 1..Len(order) |-> processUsersLine(ls[order[i]], idx).out]

\* C16 witness: a sequential run returns after writing two different accepted
\* lines that an invalid line separates in the input.
C16_Witness ==
  /\ method \in {"static", "processUsersAsStream"}
  /\ pc = "returned"
  /\ Len(Lines) = 4
  /\ Appended = {2, 4}
  /\ processUsersLine(Lines[3], idx).kind = "skipped"
  /\ OutOf(2) # OutOf(4)
  /\ OutLines = <<HeaderText, OutOf(2), OutOf(4)>>

\* no read of the input and no append has failed so far
NoFault ==
  /\ err \notin {EIO("read"), EIO("write")}
  /\ \A u \in DOMAIN units : units[u] # "rejected"

\* the input exists and its first line names the three columns
ValidHeader ==
  LET ls == Lines
  IN input.exists /\ Len(ls) >= 1 /\ processHeaders(ls[1]).ok

\* the data lines the validator rejects
RejectedData == {u \in 2..Len(Lines) : processUsersLine(Lines[u], HeaderIdx).kind = "skipped"}

\* C18: no content of a data line aborts a run: after a valid header, and
\* unless a read or an append fails, a run raises no error and waits only
\* for units that were started, and when it has returned every valid line,
\* those after an invalid line included, is counted and written.
C18_NoLineContentAborts ==
  (ValidHeader /\ NoFault) =>
    /\ err = NoError
    /\ pc \notin {"catch", "rejected"}
    /\ pc = "await" => units[pos] # "none"
    /\ pc \in {"barrier", "finalBarrier"} =>
         \A i \in 1..Len(promises) : units[promises[i]] # "none"
    /\ pc = "returned" =>
         /\ \A u \in AcceptedData :
              /\ units[u] = "fulfilled"
              /\ Occurrences(OutLines, OutOf(u)) >= 1
         /\ stats.processed = Cardinality(AcceptedData)

\* C18 witness: a run has returned without a fault, and its output holds a
\* valid line that follows an invalid line of the input.
C18_Witness ==
  /\ ValidHeader /\ NoFault
  /\ pc = "returned"
  /\ \E u \in RejectedData : \E w \in AcceptedData :
       /\ u < w
       /\ units[w] = "fulfilled"
       /\ Occurrences(OutLines, OutOf(w)) = 1

\* the units that appended a line and went on to their count
Counted == {u \in Appended : units[u] = "fulfilled"}

\* the units that rejected their line
Rejecting ==
  LET ls == Lines
  IN {u \in 2..Len(ls) : /\ units[u] = "fulfilled"
                         /\ processUsersLine(ls[u], idx).kind = "skipped"}

\* C19: no interleaving of the units of a batch loses an increment: in every
\* state stats.processed is the number of units that appended a line and
\* resumed and stats.skipped the number of units that rejected a line, so
\* that a batch whose units all settled without failure has added exactly
\* its appending units to processed and its rejecting units to skipped.
C19_NoLostIncrement ==
  /\ stats.processed = Cardinality(Counted)
  /\ stats.skipped = Cardinality(Rejecting)

\* C19 witness: the two units of one batch of the batched entry point have
\* both appended and settled, and both are counted.
C19_Witness ==
  /\ Concurrent
  /\ pc \in {"barrier", "finalBarrier"}
  /\ Len(promises) = 2
  /\ \A i \in 1..2 : promises[i] \in Counted
  /\ stats.processed >= 2

\* C20: appends issued concurrently never interleave partial writes: in
\* every state each line of the run's output file is either the header or
\* one complete transformed line of a unit that appended.
C20_OutputLinesAreWhole ==
  (outFile.exists /\ outFile # OldFile) =>
    \A j \in DOMAIN OutLines :
      \/ OutLines[j] = HeaderText
      \/ \E u \in Appended : OutLines[j] = processUsersLine(Lines[u], idx).out

(***************************************************************************)
(* Runs called with input paths in several directories, with and without   *)
(* an output path.                                                         *)
(***************************************************************************)
\* a, ./a, /a and d/e/a
InputPaths ==
  {<<"a">>, <<".", "/", "a">>, <<"/", "a">>, PathA, <<"d", "/", "e", "/", "a">>}

\* e/o
ExplicitOutput == <<"e", "/", "o">>

OutputArgs == {Undefined, <<>>, ExplicitOutput}

PathFiles ==
  {File(Join(<<HeaderText>> \o ls, EOL)) :
     ls \in {<<>>, <<LineValid>>, <<LineNoAt>>, <<LineNoAt, LineValid>>,
             <<LineValid, LineValidLoose>>}}

PathsInit ==
  /\ \E m \in Methods, in \in PathFiles : RunInit(m, in, NoFile)
  /\ vline = <<>> /\ vidx = NoIdx /\ vres = NoResult
  /\ \E p \in InputPaths, o \in OutputArgs :
       /\ inputFilePath = p
       /\ outputArg = o
       /\ outputFilePath = OutputPath(p, o)
  /\ peer = NoPeer
  /\ peerFile = NoFile
  /\ NoStatsCall
  /\ outcomes = <<>>

SpecPaths == PathsInit /\ [][Next]_vars

\* two path texts that name one file
SameFile(x, y) == x = y \/ x = <<".", "/">> \o y \/ y = <<".", "/">> \o x

\* q names the file output.csv of the directory that holds p
IsDefaultOutputOf(q, p) ==
  \E k \in 0..Len(p) :
    /\ k = 0 \/ p[k] = "/"
    /\ \A i \in (k + 1)..Len(p) : p[i] # "/"
    /\ SameFile(q, SubSeq(p, 1, k) \o DefaultName)

\* C22: a run called without an output path writes to output.csv in the
\* directory of its input file, and when it returns with at least one
\* accepted line that file holds the header and the accepted lines.
C22_DefaultOutputBesideInput ==
  Falsy(outputArg) =>
    /\ IsDefaultOutputOf(outputFilePath, inputFilePath)
    /\ (pc = "returned" /\ stats.processed >= 1) =>
         /\ outFile.exists
         /\ OutLines[1] = HeaderText
         /\ Len(OutLines) = 1 + stats.processed
         /\ \A j \in 2..Len(OutLines) :
              \E u \in Appended : OutLines[j] = processUsersLine(Lines[u], idx).out

\* C22 witness: a run called without an output path on an input two
\* directories down has returned, and its two accepted lines are in the file.
C22_Witness ==
  /\ outputArg = Undefined
  /\ Len(inputFilePath) = 5
  /\ outputFilePath = <<"d", "/", "e", "/">> \o DefaultName
  /\ pc = "returned"
  /\ stats.processed = 2
  /\ Len(OutLines) = 3

(***************************************************************************)
(* Two invocations at once: the run, and a peer that is a call of the      *)
(* static processUsers on another input file.  The peer takes one step for *)
(* each of its operations on its output file; what it does between two of  *)
(* them touches nothing the run can see.                                   *)
(***************************************************************************)
PeerIdx == processHeaders(peer.lines[1]).idx

PeerResult(i) == processUsersLine(peer.lines[i], PeerIdx)

\* the peer's output path is the run's output path
PeerShares == peer.path = outputFilePath

\* the file at the peer's output path
PeerTarget == IF PeerShares THEN outFile ELSE peerFile

\* the file at the peer's output path becomes f
PeerWrites(f) ==
  IF PeerShares THEN outFile' = f /\ peerFile' = peerFile
  ELSE peerFile' = f /\ outFile' = outFile

\* the lines the peer has not read yet and will accept
PeerAhead == {i \in (peer.pos + 1)..Len(peer.lines) : PeerResult(i).kind = "processed"}

\* the lines from position a to b that the peer rejects
PeerSkips(a, b) == Cardinality({i \in a..b : PeerResult(i).kind = "skipped"})

\* the peer's fs.writeFile of the header line
PeerWriteHeader ==
  /\ peer.pc = "start"
  /\ PeerWrites(writeFile(PeerTarget, HeaderText))
  /\ peer' = [peer EXCEPT !.pc = "loop", !.pos = 1]
  /\ UNCHANGED <<method, input, pc, stats, idx, pos, promises, units, err, vvars,
                 inputFilePath, outputArg, outputFilePath, svars, outcomes, reader>>

\* the peer reads on to its next accepted line, appends it and counts it
PeerAppend ==
  /\ peer.pc = "loop" /\ PeerAhead # {}
  /\ LET i == CHOOSE x \in PeerAhead : \A y \in PeerAhead : x <= y
     IN /\ PeerWrites(appendFile(PeerTarget, <<EOL>> \o PeerResult(i).out))
        /\ peer' = [peer EXCEPT !.pos = i,
                                !.stats = Stats(peer.stats.processed + 1,
                                                peer.stats.skipped + PeerSkips(peer.pos + 1, i - 1))]
  /\ UNCHANGED <<method, input, pc, stats, idx, pos, promises, units, err, vvars,
                 inputFilePath, outputArg, outputFilePath, svars, outcomes, reader>>

\* the peer reads to the end of its input, deletes its output when it
\* accepted nothing, and returns
PeerFinish ==
  /\ peer.pc = "loop" /\ PeerAhead = {}
  /\ IF peer.stats.processed = 0
     THEN PeerWrites(safeDelete(PeerTarget).file)
     ELSE UNCHANGED <<outFile, peerFile>>
  /\ peer' = [peer EXCEPT !.pc = "returned",
                          !.pos = Len(peer.lines),
                          !.stats = Stats(peer.stats.processed,
                                          peer.stats.skipped
                                            + PeerSkips(peer.pos + 1, Len(peer.lines)))]
  /\ UNCHANGED <<method, input, pc, stats, idx, pos, promises, units, err, vvars,
                 inputFilePath, outputArg, outputFilePath, svars, outcomes, reader>>

\* d/b and e/b
PeerPaths == {<<"d", "/", "b">>, <<"e", "/", "b">>}

PeerInputs == {<<HeaderText>>, <<HeaderText, LineValidLoose>>, <<HeaderText, LineNoAt>>}

TwoRunsFiles ==
  {File(Join(<<HeaderText>> \o ls, EOL)) :
     ls \in {<<>>, <<LineValid>>, <<LineNoAt>>, <<LineNoAt, LineValid>>}}

TwoRunsInit ==
  /\ \E m \in Methods, in \in TwoRunsFiles : RunInit(m, in, NoFile)
  /\ vline = <<>> /\ vidx = NoIdx /\ vres = NoResult
  /\ inputFilePath = PathA
  /\ outputArg = Undefined
  /\ outputFilePath = OutputPath(PathA, Undefined)
  /\ \E p \in PeerPaths, ls \in PeerInputs :
       peer = [pc |-> "start", lines |-> ls, pos |-> 0, stats |-> Stats(0, 0),
               path |-> OutputPath(p, Undefined)]
  /\ peerFile = NoFile
  /\ NoStatsCall
  /\ outcomes = <<>>

TwoRunsNext == Next \/ PeerWriteHeader \/ PeerAppend \/ PeerFinish

SpecTwoRuns == TwoRunsInit /\ [][TwoRunsNext]_vars

\* the output a run of the static processUsers on the lines ls leaves when
\* it runs alone
AloneOutput(ls) ==
  LET hidx == processHeaders(ls[1]).idx
      accepted == {i \in 2..Len(ls) : processUsersLine(ls[i], hidx).kind = "processed"}
      order == Ascending(accepted)
  IN IF accepted = {} THEN NoFile
     ELSE File(Join(<<HeaderText>> \o
                    [i \in 1..Len(order) |-> processUsersLine(ls[order[i]], hidx).out], EOL))

\* C21: two invocations on two different input files do not interact: when
\* both have returned, and no read or append of the run failed, each has the
\* Stats and has left the output it leaves when it runs alone, also when
\* both were called without an output path on inputs of one directory.
C21_RunsDoNotInteract ==
  (pc = "returned" /\ peer.pc = "returned" /\ NoFault) =>
    /\ stats = Stats(Cardinality(AcceptedData), Cardinality(RejectedData))
    /\ peer.stats = Stats(Cardinality({i \in 2..Len(peer.lines) : PeerResult(i).kind = "processed"}),
                          PeerSkips(2, Len(peer.lines)))
    /\ outFile = AloneOutput(Lines)
    /\ PeerTarget = AloneOutput(peer.lines)

\* C23: the batch wait is a join barrier: in the batched entry point every
\* unit that was launched and has not settled belongs to the current batch,
\* so that no line is pulled and no unit launched for the next batch before
\* every unit of the batch before it has settled, by success or by failure.
C23_BatchWaitIsJoinBarrier ==
  Concurrent =>
    /\ \A u \in InFlight : \E i \in 1..Len(promises) : promises[i] = u
    /\ pc \in {"barrier", "finalBarrier"} => Len(promises) >= 1
    /\ (pc = "loop" /\ promises = <<>>) => \A u \in 2..pos : Settled(u)

\* C23 witness: a batch of two units, one of which failed, has been waited
\* for, and the run is about to pull the first line of the next batch.
C23_Witness ==
  /\ Concurrent
  /\ pc = "loop"
  /\ promises = <<>>
  /\ pos = 3 /\ Len(Lines) > 3
  /\ units[2] = "rejected"
  /\ units[3] = "fulfilled"

\* C24: whatever the number n of valid data lines, a multiple of the batch
\* capacity or not, the batched entry point reads stats.processed to choose
\* between keeping and deleting the output, and returns, only when every
\* unit it launched has settled, those of the last and partial batch
\* included; with every line valid and no read or append failing it returns
\* processed = n and skipped = 0 and all n lines are in the output.
C24_FinalPartialBatchAwaited ==
  (Concurrent /\ pc \in {"check", "returned"}) =>
    /\ pos = Len(Lines)
    /\ \A u \in 2..Len(Lines) : Settled(u)
    /\ (pc = "returned" /\ NoFault /\ Len(Lines) >= 2 /\ AcceptedData = 2..Len(Lines)) =>
         /\ stats = Stats(Len(Lines) - 1, 0)
         /\ Len(OutLines) = Len(Lines)
         /\ \A u \in AcceptedData :
              Occurrences(OutLines, OutOf(u)) =
                Cardinality({w \in AcceptedData : OutOf(w) = OutOf(u)})

\* C24 witness: three valid lines at a capacity of two: the run has returned
\* after a full batch and a partial batch of one, with all three lines
\* counted and written.
C24_Witness ==
  /\ Concurrent
  /\ pc = "returned"
  /\ batchSize = 2
  /\ Len(Lines) = 4
  /\ promises = <<4>>
  /\ stats = Stats(3, 0)
  /\ Len(OutLines) = 4

\* the accepted lines whose unit appended and counted its line
Succeeded == {w \in AcceptedData : units[w] = "fulfilled"}

\* C25: the failure of a unit neither cancels nor loses the work of the
\* other units: when the batched entry point returns, every unit that did
\* not fail has appended its accepted line and applied its increment, and
\* no failure of a unit has been dropped: a run in which a unit failed does
\* not return as a run in which nothing failed.
C25_UnitFailureIsolatedAndAccounted ==
  (Concurrent /\ pc = "returned") =>
    /\ stats.processed = Cardinality(Succeeded)
    /\ stats.skipped = Cardinality(RejectedData)
    /\ stats.processed >= 1 =>
         \A w \in Succeeded : Occurrences(OutLines, OutOf(w)) >= 1
    /\ \A u \in DOMAIN units : units[u] # "rejected"

\* no file of the run is at the output path: none at all, or the one that
\* was there before the run and that the run did not touch
NoOutput == ~outFile.exists \/ outFile = OldFile

\* the call returned Stats with an accepted line, and the output holds the
\* header and as many data lines as were counted
Committed ==
  /\ pc = "returned" /\ stats.processed >= 1
  /\ outFile.exists /\ OutLines[1] = HeaderText /\ Len(OutLines) = 1 + stats.processed

\* the call returned Stats without an accepted line and left no output
DeletedEmpty == pc = "returned" /\ stats.processed = 0 /\ NoOutput

\* the call rejected and left no output
DeletedError == pc = "rejected" /\ NoOutput

\* C26: a run ends in one of three states that exclude each other: Stats
\* returned with the header and the counted lines in the output, Stats
\* returned with nothing accepted and no output, or a rejection with no
\* output; never Stats with processed >= 1 and the file missing, never a
\* rejection that leaves an output file.
C26_ThreeTerminalStates ==
  Terminal =>
    /\ Committed \/ DeletedEmpty \/ DeletedError
    /\ ~(Committed /\ DeletedEmpty) /\ ~(Committed /\ DeletedError)
    /\ ~(DeletedEmpty /\ DeletedError)

\* the units that complete in a step
Completing == {u \in DOMAIN units : units[u] # "fulfilled" /\ units'[u] = "fulfilled"}

\* C27: both counters start at zero and never decrease, and a step changes
\* at most one of them, by exactly one; such a step is the completion of the
\* unit of one non-blank data line, every such completion is such a step,
\* and a completed unit never completes again: the header line and blank
\* lines change neither counter.
C27_CountersStepByOne ==
  [][/\ stats.processed >= 0 /\ stats.skipped >= 0
     /\ stats'.processed \in {stats.processed, stats.processed + 1}
     /\ stats'.skipped \in {stats.skipped, stats.skipped + 1}
     /\ total(stats') <= total(stats) + 1
     /\ stats' # stats => \E u \in NonBlankData : Completing = {u}
     /\ \A u \in Completing : u \in NonBlankData => total(stats') = total(stats) + 1
     /\ \A u \in DOMAIN units : units[u] = "fulfilled" => units'[u] = "fulfilled"
     /\ units'[1] = "none"]_vars

\* C27 witness: a run over a valid line, an invalid line and a blank line
\* has returned with one increment of each counter.
C27_Witness ==
  /\ pc = "returned"
  /\ stats = Stats(1, 1)
  /\ Cardinality(NonBlankData) = 2
  /\ \E u \in 2..Len(Lines) : u \notin NonBlankData /\ units[u] = "fulfilled"

\* the step writes the header line to the output, emptying what was there
WritesHeader == outFile' = File(HeaderText)

\* the step appends one accepted, transformed line to the output
AppendsOneLine ==
  \E u \in AcceptedData :
    /\ units[u] = "appending" /\ units'[u] = "written"
    /\ outFile'.exists
    /\ outFile'.content = outFile.content \o <<EOL>> \o OutOf(u)

\* C28: the header name,email,age is written once, as the first write of
\* the run and before any line is pulled; every later write is the append of
\* one accepted, transformed line (the deletion of the file apart), so that
\* the header is the first line of the output file whenever it exists.
C28_HeaderFirstThenAppends ==
  /\ [][outFile' # outFile =>
          \/ WritesHeader /\ pos = 0 /\ pc \in {"start", "write"} /\ pc' \notin {"start", "write"}
          \/ AppendsOneLine /\ pc \notin {"start", "write"}
          \/ ~outFile'.exists /\ pc \in {"check", "catch"}]_vars
  /\ []((outFile.exists /\ outFile # OldFile) => OutLines[1] = HeaderText)

(***************************************************************************)
(* The batched entry point under fair scheduling: a launched append        *)
(* settles, the line source answers, and the event loop resumes the run    *)
(* when what it awaits has settled.                                        *)
(***************************************************************************)
MaxBatchedLines == 3

BatchedFiles ==
  {NoFile, ZeroBytes, File(HeaderText), File(LineBadHeader)}
    \cup {File(Join(<<HeaderText>> \o ls, EOL)) :
            ls \in SeqsUpTo({LineValid, LineNoAt, LineEmpty}, MaxBatchedLines)}

BatchedInit ==
  /\ \E in \in BatchedFiles : RunInit("processUsersAsStreamAndConcurrency", in, NoFile)
  /\ vline = <<>> /\ vidx = NoIdx /\ vres = NoResult
  /\ Alone
  /\ NoStatsCall
  /\ outcomes = <<>>

\* the steps of the run itself
RunStep == WriteHeader \/ Barrier \/ Finish \/ Catch

BatchedNext == RunStep \/ PullHeader \/ Pull \/ Unit

\* weak fairness of the unit steps, WF_vars(Unit), with ENABLED <<Unit>>_vars
\* written out: a unit step is possible exactly when a unit is in flight
FairUnits == []<>(InFlight = {}) \/ []<><<Unit>>_vars

SpecBatchedFair ==
  /\ BatchedInit /\ [][BatchedNext]_vars
  /\ WF_vars(RunStep) /\ WF_vars(PullHeader) /\ WF_vars(Pull) /\ FairUnits

\* C29: for every finite input, when every launched append settles and the
\* line source yields its next line or its end, a run of the batched entry
\* point reaches a terminal state: it returns Stats or it rejects, and does
\* not wait for ever at a batch barrier.
C29_BatchedRunTerminates == <>Terminal

\* C29 witness: a run has returned after waiting at a barrier for a batch
\* in which a unit failed, and after a last batch of one.
C29_Witness ==
  /\ pc = "returned"
  /\ Len(Lines) = 4
  /\ promises = <<4>>
  /\ units[2] = "rejected"

(***************************************************************************)
(* The delete of an output file that is not there.                         *)
(***************************************************************************)
\* the run's catch block completes: it re-raises
Aborting == pc = "catch" /\ pc' # pc

\* the run's emptiness check completes on a run that accepted nothing
FinishingEmpty == pc = "check" /\ stats.processed = 0 /\ pc' # pc

\* C30: deleting the output file when there is none is not an error. When
\* no file is at the output path, the catch block still re-raises the
\* failure it caught, unchanged, and a run that accepted nothing still
\* returns its counters; the delete leaves the path without a file.
C30_DeleteOfMissingFileIsNoError ==
  [][~outFile.exists =>
       /\ Aborting => pc' = "rejected" /\ err' = err /\ err' # ENOENT("unlink")
                        /\ ~outFile'.exists
       /\ FinishingEmpty => pc' = "returned" /\ stats' = stats /\ err' = NoError
                              /\ ~outFile'.exists]_vars

\* C30 witness: the static processUsers failed to read its input before it
\* wrote anything, while the other run had not started: its delete found no
\* file, and the run rejected with the read error.
C30_Witness ==
  /\ method = "processUsers"
  /\ pc = "rejected"
  /\ err = EIO("read")
  /\ peer.pc = "start"
  /\ ~outFile.exists

(***************************************************************************)
(* The Stats class: construction, counting, reading the total.             *)
(***************************************************************************)
MaxCount == 2

\* undefined, null, '1', NaN and the integers around zero
StatsArgs == {JsUndefined, JsNull, JsString, JsNaN} \cup {JsNumber(n) : n \in -MaxCount..MaxCount}

StatsInit ==
  /\ RunInit("processUsers", NoFile, NoFile)
  /\ vline = <<>> /\ vidx = NoIdx /\ vres = NoResult
  /\ Alone
  /\ sargs \in StatsArgs \X StatsArgs
  /\ sobj = NoStats
  /\ sread = NoRead
  /\ outcomes = <<>>

\* new Stats(processed, skipped)
Construct ==
  /\ sobj = NoStats
  /\ sobj' = newStats(sargs[1], sargs[2])
  /\ UNCHANGED <<method, input, outFile, pc, stats, idx, pos, promises, units, err,
                 vvars, pvars, sargs, sread, outcomes, reader>>

\* stats.processed++ or stats.skipped++
Count ==
  /\ sobj.state = "constructed"
  /\ \/ /\ sobj.processed.nan \/ sobj.processed.v < MaxCount
        /\ sobj' = [sobj EXCEPT !.processed = JsAdd(@, JsNumber(1))]
     \/ /\ sobj.skipped.nan \/ sobj.skipped.v < MaxCount
        /\ sobj' = [sobj EXCEPT !.skipped = JsAdd(@, JsNumber(1))]
  /\ sread' = NoRead
  /\ UNCHANGED <<method, input, outFile, pc, stats, idx, pos, promises, units, err,
                 vvars, pvars, sargs, outcomes, reader>>

\* stats.total
ReadTotal ==
  /\ sobj.state = "constructed"
  /\ sread = NoRead
  /\ sread' = JsTotal(sobj)
  /\ UNCHANGED <<method, input, outFile, pc, stats, idx, pos, promises, units, err,
                 vvars, pvars, sargs, sobj, outcomes, reader>>

StatsNext == Construct \/ Count \/ ReadTotal

SpecStats == StatsInit /\ [][StatsNext]_vars

\* an argument that is given and is not a number
NonNumberArg(a) == a # JsUndefined /\ a.type # "number"

\* C31: new Stats with a non-number argument fails with TypeError, with a
\* negative argument (and no non-number one) with RangeError; every Stats
\* that was constructed has processed >= 0 and skipped >= 0; and a total
\* that was just read is processed + skipped.
C31_StatsCountersNonNegative ==
  sobj # NoStats =>
    /\ (NonNumberArg(sargs[1]) \/ NonNumberArg(sargs[2])) => sobj.state = "TypeError"
    /\ (/\ ~NonNumberArg(sargs[1]) /\ ~NonNumberArg(sargs[2])
        /\ JsNegative(sargs[1]) \/ JsNegative(sargs[2])) => sobj.state = "RangeError"
    /\ sobj.state = "constructed" =>
         /\ JsNonNegative(sobj.processed) /\ JsNonNegative(sobj.skipped)
         /\ sread # NoRead => sread = JsAdd(sobj.processed, sobj.skipped)

(***************************************************************************)
(* The count of a line follows its append.                                 *)
(***************************************************************************)
\* the data lines in the output file: its lines after the first
OutputDataLines == IF outFile.exists THEN Len(OutLines) - 1 ELSE 0

\* the header is in the output file and the run has not deleted the file
Writing == pc \notin {"start", "write", "rejected"} /\ outFile.exists

\* C32: in every state stats.processed is at most the number of data lines
\* already appended, and that number is at most stats.processed plus the
\* number of units in flight; while the run is writing, the appended lines
\* are the data lines of the output file.
C32_CountFollowsAppend ==
  LET appended == Cardinality(Appended)
  IN /\ stats.processed <= appended
     /\ appended <= stats.processed + Cardinality(InFlight)
     /\ Writing => OutputDataLines = appended

\* C32 witness: two units of a batch are in flight, one has appended its
\* line and not counted it yet, the other has not appended.
C32_Witness ==
  /\ Concurrent
  /\ stats.processed = 0
  /\ Cardinality(Appended) = 1
  /\ Cardinality(InFlight) = 2
  /\ OutputDataLines = 1

(***************************************************************************)
(* The three entry points of the instance, called one after the other on   *)
(* the same input.                                                         *)
(***************************************************************************)
MaxEntryLines == 2

InstanceMethods == <<"processUsers", "processUsersAsStream", "processUsersAsStreamAndConcurrency">>

\* a missing file, a zero-byte file, a file of one line break, a header
\* alone, a header that lacks a column, and a header with data lines
EntryFiles ==
  {NoFile, ZeroBytes, File(<<EOL>>), File(HeaderText), File(LineBadHeader)}
    \cup {File(Join(<<HeaderText>> \o ls, EOL)) :
            ls \in SeqsUpTo({LineValid, LineNoAt, LineEmpty}, MaxEntryLines)}

EntryPointsInit ==
  /\ \E in \in EntryFiles : RunInit(InstanceMethods[1], in, NoFile)
  /\ vline = <<>> /\ vidx = NoIdx /\ vres = NoResult
  /\ Alone
  /\ NoStatsCall
  /\ outcomes = <<>>

\* what the caller of the finished call observes: the promise fulfilled or
\* rejected, the Stats it was fulfilled with, the file at the output path
Outcome ==
  [method |-> method,
   result |-> pc,
   stats |-> IF pc = "returned" THEN stats ELSE Stats(0, 0),
   out |-> outFile,
   fault |-> ~NoFault]

\* the caller, after a call has ended and its units have settled, notes the
\* outcome and calls the next entry point on the same input, with an output
\* path of its own that holds no file
CallNext ==
  /\ Terminal /\ InFlight = {}
  /\ Len(outcomes) < Len(InstanceMethods)
  /\ outcomes' = Append(outcomes, Outcome)
  /\ IF Len(outcomes) + 1 < Len(InstanceMethods)
     THEN /\ method' = InstanceMethods[Len(outcomes) + 2]
          /\ outFile' = NoFile
          /\ pc' = "start"
          /\ stats' = Stats(0, 0)
          /\ idx' = NoIdx
          /\ pos' = 0
          /\ promises' = <<>>
          /\ units' = [u \in DOMAIN units |-> "none"]
          /\ err' = NoError
          /\ reader' = ReaderAtCall(InstanceMethods[Len(outcomes) + 2])
     ELSE UNCHANGED <<method, outFile, pc, stats, idx, pos, promises, units, err, reader>>
  /\ UNCHANGED <<input, vvars, pvars, svars>>

EntryPointsNext == Next \/ CallNext

SpecEntryPoints == EntryPointsInit /\ [][EntryPointsNext]_vars

\* the two files hold the same lines the same number of times, or neither
\* exists
SameLines(f, g) ==
  /\ f.exists = g.exists
  /\ f.exists =>
       LET fl == Split(f.content, EOL)
           gl == Split(g.content, EOL)
       IN /\ Len(fl) = Len(gl)
          /\ \A i \in DOMAIN fl : Occurrences(fl, fl[i]) = Occurrences(gl, fl[i])

\* the two calls ended the same way
SameOutcome(a, b) ==
  /\ a.result = b.result
  /\ a.stats = b.stats
  /\ SameLines(a.out, b.out)

\* C33: on every input the three entry points of the instance have the
\* same outcome when no read and no append fails: all reject, or all return
\* the same counts and leave the same lines in the output (or no output).
C33_EntryPointsAgree ==
  (/\ Len(outcomes) = Len(InstanceMethods)
   /\ \A i \in DOMAIN outcomes : ~outcomes[i].fault)
    => \A i, j \in DOMAIN outcomes : SameOutcome(outcomes[i], outcomes[j])

(***************************************************************************)
(* The line source of a run, and what was at the output path before it.    *)
(***************************************************************************)
MaxReaderLines == 2

ReaderFiles ==
  {NoFile, ZeroBytes, File(HeaderText), File(LineBadHeader)}
    \cup {File(Join(<<HeaderText>> \o ls, EOL)) :
            ls \in SeqsUpTo({LineValid, LineNoAt, LineEmpty}, MaxReaderLines)}

\* every run finds the file OldFile at its output path
ReaderInit ==
  /\ \E m \in Methods, in \in ReaderFiles : RunInit(m, in, OldFile)
  /\ vline = <<>> /\ vidx = NoIdx /\ vres = NoResult
  /\ Alone
  /\ NoStatsCall
  /\ outcomes = <<>>

\* the fs.open of the read stream completes, at any time after the stream
\* was created; a failed open destroys the stream
OpenInput ==
  /\ reader = "pending"
  /\ reader' = IF input.exists THEN "open" ELSE "closed"
  /\ UNCHANGED <<method, input, outFile, pc, stats, idx, pos, promises, units, err,
                 vvars, pvars, svars, outcomes>>

\* a line source that nobody reads any more reaches the end of its input
\* and closes itself
ReaderEnds ==
  /\ reader = "open" /\ pc \in {"catch", "rejected"}
  /\ reader' = "closed"
  /\ UNCHANGED <<method, input, outFile, pc, stats, idx, pos, promises, units, err,
                 vvars, pvars, svars, outcomes>>

ReaderNext == Next \/ OpenInput \/ ReaderEnds

SpecReader == ReaderInit /\ [][ReaderNext]_vars

\* the entry points that read the input through a line source
Streaming == method # "processUsers"

RECURSIVE IsPrefix(_, _)
\* the text p is the beginning of the text t
IsPrefix(p, t) ==
  IF p = <<>> THEN TRUE
  ELSE IF t = <<>> THEN FALSE
  ELSE Head(p) = Head(t) /\ IsPrefix(Tail(p), Tail(t))

\* what was at the output path before the run is still there
OldContentThere == outFile.exists /\ IsPrefix(OldFile.content, outFile.content)

C35_ReaderReleasedAtDelivery ==
  Terminal => reader \in {"none", "closed"}

====
